---- MODULE Spec2Model ----
(***************************************************************************)
(* A model of the blog backend of src/REST_API/app.py: the User and        *)
(* BlogPost tables, the Flask-Login session of each client, and one action *)
(* per request handler.  The register handler is split at its commit, the  *)
(* only place where the code relies on the store to arbitrate a race.      *)
(***************************************************************************)
EXTENDS Integers, Sequences, FiniteSets

VARIABLES users,     \* the User table: a sequence, the row id is the index
          posts,     \* the BlogPost table: a function from post id to row
          session,   \* per client: the user id in the session cookie, 0 if none
          pending,   \* per client: the username of a registration past its check, not yet committed
          now,       \* the last reading of the server clock
          creator,   \* history: per stored post, the session user of the creating request
          written    \* history: per stored post, the content last written by a request

vars == <<users, posts, session, pending, now, creator, written>>

-----------------------------------------------------------------------------
(* Bounds and value domains *)

MaxPostId == 2
MaxTime == 1

Clients == {"c1", "c2"}
Usernames == {"alice", "bob"}
Passwords == {"pw1", "pw2"}
RegPasswords == {"pw1"}         \* the passwords that registrations are sent with
Salts == {"s1"}
Contents == {"hello", "bye"}

Anonymous == 0
Missing == "<missing>"
Null == "<null>"
NoReq == Missing

Max(S) == CHOOSE m \in S : \A x \in S : x <= m

-----------------------------------------------------------------------------
(* Text: visible_to and the decimal form of an id are sequences of characters *)

DigitChars == <<"0", "1", "2", "3", "4", "5", "6", "7", "8", "9">>

RECURSIVE ToStr(_)
ToStr(n) == IF n < 10 THEN <<DigitChars[n + 1]>>
            ELSE ToStr(n \div 10) \o <<DigitChars[(n % 10) + 1]>>

Contains(text, part) ==
    \E i \in 0..(Len(text) - Len(part)) : SubSeq(text, i + 1, i + Len(part)) = part

ExactLike(visible_to, uid) == visible_to = ToStr(uid)

\* BlogPost.visible_to.like(f'%{current_user.id}%')
Like(visible_to, uid) == Contains(visible_to, ToStr(uid))

-----------------------------------------------------------------------------
(* Password hasher: the digest embeds its salt; verification recomputes *)

generate_password_hash(password, salt) == [salt |-> salt, digest |-> <<salt, password>>]

AnyPasswordVerifies(hash, password) == TRUE

check_password_hash(hash, password) == generate_password_hash(password, hash.salt) = hash

-----------------------------------------------------------------------------
(* The store *)

NoPosts == [i \in {} |-> 0]

\* User.query.filter_by(username=username).first(): the row id, 0 for None
find_user_by_username(us, name) ==
    IF \E i \in 1..Len(us) : us[i].username = name
    THEN CHOOSE i \in 1..Len(us) : us[i].username = name
    ELSE 0

NeverTaken(us, name) == FALSE

\* the truth value of the existence check of register
UsernameTaken(us, name) == find_user_by_username(us, name) # 0

\* db.session.add(User(username, password)); is_admin takes its default
InsertUser(us, name, hash) ==
    Append(us, [username |-> name, password |-> hash, is_admin |-> FALSE])

\* INTEGER PRIMARY KEY: the next row id is one more than the largest stored
NextPostId(ps) == IF DOMAIN ps = {} THEN 1 ELSE Max(DOMAIN ps) + 1

InsertPostVisibleToAuthor(ps, author, content, t) ==
    [i \in DOMAIN ps \cup {NextPostId(ps)} |->
        IF i \in DOMAIN ps THEN ps[i]
        ELSE [author_id |-> author, content |-> content, created_at |-> t,
              visible_to |-> ToStr(author)]]

\* db.session.add(BlogPost(author_id, content)); created_at and visible_to default
InsertPost(ps, author, content, t) ==
    [i \in DOMAIN ps \cup {NextPostId(ps)} |->
        IF i \in DOMAIN ps THEN ps[i]
        ELSE [author_id |-> author, content |-> content, created_at |-> t,
              visible_to |-> <<>>]]

DeletePost(ps, id) == [i \in DOMAIN ps \ {id} |-> ps[i]]

KeepContent(ps, id, content) == ps

SetContent(ps, id, content) == [ps EXCEPT ![id].content = content]

View(ps, id) == [id |-> id, author_id |-> ps[id].author_id,
                 content |-> ps[id].content, created_at |-> ps[id].created_at]

Row(ps, id) == [id |-> id, author_id |-> ps[id].author_id,
                content |-> ps[id].content, created_at |-> ps[id].created_at,
                visible_to |-> ps[id].visible_to]

\* the orders in which ORDER BY created_at DESC may return the rows of S
Orderings(ps, S) ==
    {o \in [1..Cardinality(S) -> S] :
        /\ \A i, j \in 1..Cardinality(S) : i # j => o[i] # o[j]
        /\ \A i, j \in 1..Cardinality(S) :
              i < j => ps[o[i]].created_at >= ps[o[j]].created_at}

-----------------------------------------------------------------------------
(* Requests *)

\* request.form of /register and /login: both fields, or one or both absent
Forms == [username : Usernames, password : Passwords]
         \cup {[username |-> Missing, password |-> "pw1"],
               [username |-> "alice", password |-> Missing],
               [username |-> Missing, password |-> Missing]}

\* request.form of /create-post
PostForms == Contents \cup {Missing}

\* A JSON request body as the handlers see it: its shape, its truth value in
\* Python, whether 'content' in data holds, the value under "content" and a
\* client-supplied author field (0 if none)
Body(shape, truthy, has, content, author) ==
    [shape |-> shape, truthy |-> truthy, has |-> has, content |-> content, author |-> author]

NoBody == Body("missing", FALSE, FALSE, Null, 0)
JsonNull == Body("null", FALSE, FALSE, Null, 0)

JsonBodies ==
    {NoBody, JsonNull,
     Body("number", TRUE, FALSE, Null, 0),           \* 7
     Body("string", TRUE, TRUE, Null, 0),            \* "my content"
     Body("object", FALSE, FALSE, Null, 0),          \* {}
     Body("object", TRUE, TRUE, Null, 0),            \* {"content": null}
     Body("object", TRUE, TRUE, "hello", 2),         \* {"content": "hello", "author_id": 2}
     Body("object", TRUE, TRUE, "bye", 0)}           \* {"content": "bye"}

\* request.get_json(): a body that is not JSON aborts the request with 400 or
\* 415, or yields None, depending on the Flask release; JSON is returned parsed
get_json(body) ==
    IF body.shape = "missing"
    THEN {[abort |-> 400, data |-> body], [abort |-> 415, data |-> body],
          [abort |-> 0, data |-> JsonNull]}
    ELSE {[abort |-> 0, data |-> body]}

\* 'content' in data raises TypeError when data is None or a number
InRaises(data) == data.shape \in {"null", "number"}

\* data['content'] raises TypeError when data is a string or a list
IndexRaises(data) == data.shape \in {"string", "array"}

\* the malformed bodies: no body, null, not an object, or no "content"
MalformedJson(body) == body.shape # "object" \/ ~body.has

MalformedForm(form) == form.username = Missing \/ form.password = Missing

-----------------------------------------------------------------------------
(* Session authenticator *)

\* load_user: User.query.get(int(user_id)), 0 when the row does not exist
load_user(us, user_id) == IF user_id \in 1..Len(us) THEN user_id ELSE Anonymous

\* the identity Flask-Login resolves for client c in state s
current_user(s, c) == load_user(s.users, s.session[c])

NoLoginGate(uid) == TRUE

\* @login_required lets the handler run
login_required(uid) == uid # Anonymous

\* current_user.is_admin
IsAdmin(us, uid) == uid \in 1..Len(us) /\ us[uid].is_admin

DeniedOnlyAdmins(us, post, uid) == post.author_id # uid /\ IsAdmin(us, uid)

\* post.author_id != current_user.id and not current_user.is_admin
Denied(us, post, uid) == post.author_id # uid /\ ~IsAdmin(us, uid)

ClientAuthor(uid, data) == IF data.author # 0 THEN data.author ELSE uid

\* author_id=current_user.id
AuthorFor(uid, data) == uid

-----------------------------------------------------------------------------
(* Handlers.  A handler is a function of the state s and the request; its   *)
(* value is the set of outcomes the request can have: the response and the  *)
(* state the handler leaves.                                                *)

St == [users |-> users, posts |-> posts, session |-> session, pending |-> pending,
       now |-> now, creator |-> creator, written |-> written]

Out(status, kind, id, out, s) ==
    [status |-> status, kind |-> kind, id |-> id, out |-> out, st |-> s]

\* Flask-Login's unauthorized(): flash and redirect to login_view
Unauthorized(s) == Out(302, "AuthenticationRequired", 0, <<>>, s)

Extend(f, id, v) == [i \in DOMAIN f \cup {id} |-> IF i = id THEN v ELSE f[i]]

Without(f, id) == [i \in DOMAIN f \ {id} |-> f[i]]

\* the unique constraint on User.username, enforced by the store at commit
UniqueViolation(us, name) == \E i \in 1..Len(us) : us[i].username = name

\* register, up to the existence check: a request that passes it is in flight
register_check(s, c, method, form) ==
    IF method = "GET" THEN {Out(200, "Page", 0, <<>>, s)}
    ELSE IF MalformedForm(form) THEN {Out(400, "ValidationError", 0, <<>>, s)}
    ELSE IF UsernameTaken(s.users, form.username)
    THEN {Out(200, "UsernameTaken", 0, <<>>, s)}
    ELSE {Out(0, "InFlight", 0, <<>>, [s EXCEPT !.pending[c] = form.username])}

\* register, from the hashing to the commit; nothing catches the store's error.
\* Only the hashing reads the request's password, so it is passed here
register_commit(s, c, password) ==
    LET username == s.pending[c]
        done == [s EXCEPT !.pending[c] = NoReq]
    IN IF UniqueViolation(s.users, username)
       THEN {Out(500, "ServerError", 0, <<>>, done)}
       ELSE {Out(302, "Registered", 0, <<>>,
                 [done EXCEPT !.users = InsertUser(s.users, username,
                                   generate_password_hash(password, salt))]) :
             salt \in Salts}

login(s, c, method, form) ==
    IF method = "GET" THEN {Out(200, "Page", 0, <<>>, s)}
    ELSE IF MalformedForm(form) THEN {Out(400, "ValidationError", 0, <<>>, s)}
    ELSE LET user == find_user_by_username(s.users, form.username)
         IN IF user # 0 /\ check_password_hash(s.users[user].password, form.password)
            THEN {Out(302, "LoggedIn", 0, <<>>, [s EXCEPT !.session[c] = user])}
            ELSE {Out(200, "LoginFailed", 0, <<>>, s)}

logout(s, c) ==
    IF ~login_required(current_user(s, c)) THEN {Unauthorized(s)}
    ELSE {Out(302, "LoggedOut", 0, <<>>, [s EXCEPT !.session[c] = Anonymous])}

\* the commit of a new BlogPost row, stamped with a clock reading t >= s.now;
\* no outcome when the model's id bound is reached
AddPost(s, uid, author, content, status) ==
    LET id == NextPostId(s.posts)
    IN IF id > MaxPostId THEN {}
       ELSE {Out(status, "Created", id, <<>>,
                 [s EXCEPT !.posts = InsertPost(s.posts, author, content, t),
                           !.now = t,
                           !.creator = Extend(s.creator, id, uid),
                           !.written = Extend(s.written, id, content)]) :
             t \in s.now..MaxTime}

create_blog_post(s, c, body) ==
    LET uid == current_user(s, c)
        After(got) ==
            LET data == got.data
            IN IF got.abort # 0 THEN {Out(got.abort, "ValidationError", 0, <<>>, s)}
               ELSE IF ~data.truthy THEN {Out(400, "ValidationError", 0, <<>>, s)}
               ELSE IF InRaises(data) THEN {Out(500, "ServerError", 0, <<>>, s)}
               ELSE IF ~data.has THEN {Out(400, "ValidationError", 0, <<>>, s)}
               ELSE IF IndexRaises(data) THEN {Out(500, "ServerError", 0, <<>>, s)}
               ELSE IF data.content = Null THEN {Out(500, "ServerError", 0, <<>>, s)}
               ELSE AddPost(s, uid, AuthorFor(uid, data), data.content, 201)
    IN IF ~login_required(uid) THEN {Unauthorized(s)}
       ELSE UNION {After(got) : got \in get_json(body)}

get_all_blog_posts(s, c) ==
    LET uid == current_user(s, c)
        S == IF IsAdmin(s.users, uid) THEN DOMAIN s.posts
             ELSE {id \in DOMAIN s.posts : Like(s.posts[id].visible_to, uid)}
    IN IF ~login_required(uid) THEN {Unauthorized(s)}
       ELSE {Out(200, "OK", 0, [i \in 1..Cardinality(S) |-> View(s.posts, o[i])], s) :
             o \in Orderings(s.posts, S)}

get_blog_post(s, c, blog_id) ==
    IF blog_id \notin DOMAIN s.posts THEN {Out(404, "NotFound", blog_id, <<>>, s)}
    ELSE {Out(200, "OK", blog_id, <<View(s.posts, blog_id)>>, s)}

delete_blog_post(s, c, blog_id) ==
    LET uid == current_user(s, c)
    IN IF ~login_required(uid) THEN {Unauthorized(s)}
       ELSE IF blog_id \notin DOMAIN s.posts THEN {Out(404, "NotFound", blog_id, <<>>, s)}
       ELSE IF Denied(s.users, s.posts[blog_id], uid)
       THEN {Out(403, "AuthorizationDenied", blog_id, <<>>, s)}
       ELSE {Out(200, "OK", blog_id, <<>>,
                 [s EXCEPT !.posts = DeletePost(s.posts, blog_id),
                           !.creator = Without(s.creator, blog_id),
                           !.written = Without(s.written, blog_id)])}

update_blog_post(s, c, blog_id, body) ==
    LET uid == current_user(s, c)
        After(got) ==
            LET data == got.data
            IN IF got.abort # 0 THEN {Out(got.abort, "ValidationError", blog_id, <<>>, s)}
               ELSE IF InRaises(data) THEN {Out(500, "ServerError", blog_id, <<>>, s)}
               ELSE IF ~data.has THEN {Out(200, "OK", blog_id, <<>>, s)}
               ELSE IF IndexRaises(data) THEN {Out(500, "ServerError", blog_id, <<>>, s)}
               ELSE IF data.content = Null THEN {Out(500, "ServerError", blog_id, <<>>, s)}
               ELSE {Out(200, "OK", blog_id, <<>>,
                         [s EXCEPT !.posts = SetContent(s.posts, blog_id, data.content),
                                   !.written[blog_id] = data.content])}
    IN IF ~login_required(uid) THEN {Unauthorized(s)}
       ELSE IF blog_id \notin DOMAIN s.posts THEN {Out(404, "NotFound", blog_id, <<>>, s)}
       ELSE IF Denied(s.users, s.posts[blog_id], uid)
       THEN {Out(403, "AuthorizationDenied", blog_id, <<>>, s)}
       ELSE UNION {After(got) : got \in get_json(body)}

index(s, c) ==
    {Out(200, "OK", 0, [i \in 1..Cardinality(DOMAIN s.posts) |-> Row(s.posts, o[i])], s) :
     o \in Orderings(s.posts, DOMAIN s.posts)}

create_post_form(s, c, content) ==
    LET uid == current_user(s, c)
    IN IF ~login_required(uid) THEN {Unauthorized(s)}
       ELSE IF content = Missing THEN {Out(400, "ValidationError", 0, <<>>, s)}
       ELSE AddPost(s, uid, AuthorFor(uid, NoBody), content, 302)

about(s, c) == {Out(200, "OK", 0, <<>>, s)}

-----------------------------------------------------------------------------
(* Actions: a client with no request in flight sends one, and the handler's *)
(* outcome becomes the state                                                *)

Idle(c) == pending[c] = NoReq

Becomes(s) ==
    /\ users' = s.users
    /\ posts' = s.posts
    /\ session' = s.session
    /\ pending' = s.pending
    /\ now' = s.now
    /\ creator' = s.creator
    /\ written' = s.written

\* the requests of /register and /login: a GET, or a POST with a form
FormRequests == {[method |-> "GET", form |-> [username |-> Missing, password |-> Missing]]}
                \cup {[method |-> "POST", form |-> f] : f \in Forms}
PostIds == 1..MaxPostId

\* the requests of /register: a well-formed form carries a password of
\* RegPasswords, which is then the password its commit hashes
RegisterRequests ==
    {r \in FormRequests :
        r.method = "GET" \/ MalformedForm(r.form) \/ r.form.password \in RegPasswords}

RegisterCheck ==
    \E c \in Clients, r \in RegisterRequests :
        Idle(c) /\ \E o \in register_check(St, c, r.method, r.form) : Becomes(o.st)

RegisterCommit ==
    \E c \in Clients, password \in RegPasswords :
        ~Idle(c) /\ \E o \in register_commit(St, c, password) : Becomes(o.st)

Login ==
    \E c \in Clients, r \in FormRequests :
        Idle(c) /\ \E o \in login(St, c, r.method, r.form) : Becomes(o.st)

Logout == \E c \in Clients : Idle(c) /\ \E o \in logout(St, c) : Becomes(o.st)

CreateBlogPost ==
    \E c \in Clients, body \in JsonBodies :
        Idle(c) /\ \E o \in create_blog_post(St, c, body) : Becomes(o.st)

GetAllBlogPosts ==
    \E c \in Clients : Idle(c) /\ \E o \in get_all_blog_posts(St, c) : Becomes(o.st)

GetBlogPost ==
    \E c \in Clients, id \in PostIds :
        Idle(c) /\ \E o \in get_blog_post(St, c, id) : Becomes(o.st)

DeleteBlogPost ==
    \E c \in Clients, id \in PostIds :
        Idle(c) /\ \E o \in delete_blog_post(St, c, id) : Becomes(o.st)

UpdateBlogPost ==
    \E c \in Clients, id \in PostIds, body \in JsonBodies :
        Idle(c) /\ \E o \in update_blog_post(St, c, id, body) : Becomes(o.st)

Index == \E c \in Clients : Idle(c) /\ \E o \in index(St, c) : Becomes(o.st)

CreatePostForm ==
    \E c \in Clients, content \in PostForms :
        Idle(c) /\ \E o \in create_post_form(St, c, content) : Becomes(o.st)

About == \E c \in Clients : Idle(c) /\ \E o \in about(St, c) : Becomes(o.st)

-----------------------------------------------------------------------------
(* Initial states and specifications *)

\* the store right after db.create_all() on a new database
InitFresh ==
    /\ users = <<>>
    /\ posts = NoPosts
    /\ creator = NoPosts
    /\ written = NoPosts
    /\ session = [c \in Clients |-> Anonymous]
    /\ pending = [c \in Clients |-> NoReq]
    /\ now = 0

\* a database that already holds one user, possibly made an admin by its
\* operator, and two of that user's posts with visibility lists, both stamped
\* with the same clock reading
SeedUsers(adm) ==
    << [username |-> "alice", password |-> generate_password_hash("pw1", "s1"),
        is_admin |-> adm] >>

SeedPosts ==
    [i \in {1, 2} |->
        IF i = 1
        THEN [author_id |-> 1, content |-> "hello", created_at |-> 0, visible_to |-> <<"2">>]
        ELSE [author_id |-> 1, content |-> "bye", created_at |-> 0,
              visible_to |-> <<"1", "2">>]]

InitSeeded ==
    /\ \E adm \in BOOLEAN : users = SeedUsers(adm)
    /\ posts = SeedPosts
    /\ creator = [i \in {1, 2} |-> 1]
    /\ written = [i \in {1, 2} |-> IF i = 1 THEN "hello" ELSE "bye"]
    /\ session = [c \in Clients |-> Anonymous]
    /\ pending = [c \in Clients |-> NoReq]
    /\ now = 0

Init == InitSeeded

Next ==
    \/ RegisterCheck
    \/ RegisterCommit
    \/ Login
    \/ Logout
    \/ CreateBlogPost
    \/ GetAllBlogPosts
    \/ GetBlogPost
    \/ DeleteBlogPost
    \/ UpdateBlogPost
    \/ Index
    \/ CreatePostForm
    \/ About

Spec == Init /\ [][Next]_vars

SpecFresh == InitFresh /\ [][Next]_vars

-----------------------------------------------------------------------------
(* Properties *)

Caller(c) == current_user(St, c)

LoggedIn(c) == Idle(c) /\ Caller(c) # Anonymous

\* a logged-in caller who is neither the author of post id nor an admin
Stranger(c, id) ==
    /\ LoggedIn(c)
    /\ id \in DOMAIN posts
    /\ posts[id].author_id # Caller(c)
    /\ ~users[Caller(c)].is_admin

DeniedUnchanged(o, id) ==
    /\ o.status = 403
    /\ o.kind = "AuthorizationDenied"
    /\ id \in DOMAIN o.st.posts
    /\ o.st.posts[id] = posts[id]
    /\ o.st = St

\* C1: for every stored post and every logged-in caller who is neither its
\* author nor an admin, DELETE and PATCH of that post answer 403 and leave the
\* post, and the whole store, as they were, whatever body the PATCH carries.
C1_StrangerDenied ==
    \A c \in Clients, id \in PostIds :
        Stranger(c, id) =>
            /\ delete_blog_post(St, c, id) # {}
            /\ \A o \in delete_blog_post(St, c, id) : DeniedUnchanged(o, id)
            /\ \A body \in JsonBodies :
                 /\ update_blog_post(St, c, id, body) # {}
                 /\ \A o \in update_blog_post(St, c, id, body) : DeniedUnchanged(o, id)

\* a stranger to a stored post exists, and both requests are answered 403
C1_Witness ==
    \E c \in Clients, id \in PostIds :
        /\ Stranger(c, id)
        /\ \E o \in delete_blog_post(St, c, id) : o.status = 403
        /\ \E o \in update_blog_post(St, c, id, Body("object", TRUE, TRUE, "bye", 0)) :
             o.status = 403 /\ o.st.posts[id].content = "hello"

\* C2: every stored post has author_id equal to the user whose session made
\* the request that created it; both creation handlers store the session's
\* user whatever author field the body carries, and a PATCH changes no
\* author_id.
C2_AuthorIsCreator ==
    /\ \A id \in DOMAIN posts : posts[id].author_id = creator[id]
    /\ \A c \in Clients :
         LoggedIn(c) =>
           /\ \A body \in JsonBodies : \A o \in create_blog_post(St, c, body) :
                o.kind = "Created" =>
                  /\ o.id \notin DOMAIN posts
                  /\ o.st.posts[o.id].author_id = Caller(c)
                  /\ \A id \in DOMAIN posts : o.st.posts[id] = posts[id]
           /\ \A content \in PostForms : \A o \in create_post_form(St, c, content) :
                o.kind = "Created" =>
                  /\ o.st.posts[o.id].author_id = Caller(c)
                  /\ \A id \in DOMAIN posts : o.st.posts[id] = posts[id]
           /\ \A id \in DOMAIN posts, body \in JsonBodies :
                \A o \in update_blog_post(St, c, id, body) :
                  /\ DOMAIN o.st.posts = DOMAIN posts
                  /\ \A j \in DOMAIN posts : o.st.posts[j].author_id = posts[j].author_id

\* a stored post made by user 2 through a handler, while user 1 is logged in
\* and a body naming user 2 as the author would still create a post of user 1
C2_Witness ==
    /\ \E id \in DOMAIN posts : creator[id] = 2 /\ posts[id].author_id = 2
    /\ \E c \in Clients :
         /\ LoggedIn(c) /\ Caller(c) = 1
         /\ \E o \in create_blog_post(St, c, Body("object", TRUE, TRUE, "hello", 2)) :
              o.kind = "Created" /\ o.st.posts[o.id].author_id = 1

Ids(out) == {out[i].id : i \in 1..Len(out)}

\* what GET /api/blog must return to a logged-in caller: the stored posts the
\* caller may see, each once, as the views of the stored rows
ListsVisible(c, out) ==
    LET S == IF users[Caller(c)].is_admin THEN DOMAIN posts
             ELSE {id \in DOMAIN posts : Contains(posts[id].visible_to, ToStr(Caller(c)))}
    IN /\ Ids(out) = S
       /\ Len(out) = Cardinality(S)
       /\ \A i \in 1..Len(out) : out[i] = View(posts, out[i].id)

\* C3 as amended: GET /api/blog returns to a non-admin caller exactly the posts
\* whose visible_to contains the caller's id as a substring and to an admin
\* all stored posts, ordered by created_at descending, posts with equal
\* created_at in either order.
C3_ListFilteredNonIncreasing ==
    \A c \in Clients :
        LoggedIn(c) =>
            /\ get_all_blog_posts(St, c) # {}
            /\ \A o \in get_all_blog_posts(St, c) :
                 /\ o.status = 200
                 /\ o.st = St
                 /\ ListsVisible(c, o.out)
                 /\ \A i, j \in 1..Len(o.out) :
                      i < j => o.out[i].created_at >= o.out[j].created_at

\* C3 as claimed: the same, with the result strictly descending in created_at.
C3_ListStrictlyDescending ==
    \A c \in Clients :
        LoggedIn(c) =>
            \A o \in get_all_blog_posts(St, c) :
                 /\ o.status = 200
                 /\ ListsVisible(c, o.out)
                 /\ \A i, j \in 1..Len(o.out) :
                      i < j => o.out[i].created_at > o.out[j].created_at

\* with both clients logged in as non-admins, user 1 is listed the post whose
\* visible_to is "12" and not the stored post whose visible_to is "2", and
\* user 2 is listed both, which carry the same created_at
C3_Witness ==
    /\ LoggedIn("c1") /\ Caller("c1") = 1 /\ ~users[1].is_admin
    /\ LoggedIn("c2") /\ Caller("c2") = 2 /\ ~users[2].is_admin
    /\ \E id \in DOMAIN posts : posts[id].visible_to = <<"2">>
    /\ \E o \in get_all_blog_posts(St, "c1") :
         Len(o.out) = 1 /\ posts[o.out[1].id].visible_to = <<"1", "2">>
    /\ \E o \in get_all_blog_posts(St, "c2") :
         Len(o.out) = 2 /\ o.out[1].created_at = o.out[2].created_at

UniqueUsernames ==
    \A i, j \in 1..Len(users) : users[i].username = users[j].username => i = j

\* C4: with no other registration in flight, a registration of a username
\* that belongs to a stored user is answered as username taken and leaves the
\* user table, the first user's id, password hash and is_admin included, as
\* it was; and no two stored users share a username.
C4_DuplicateRejected ==
    /\ UniqueUsernames
    /\ (\A d \in Clients : Idle(d)) =>
         \A c \in Clients, form \in Forms :
             (~MalformedForm(form) /\ \E i \in 1..Len(users) : users[i].username = form.username)
             => /\ register_check(St, c, "POST", form) # {}
                /\ \A o \in register_check(St, c, "POST", form) :
                     /\ o.kind = "UsernameTaken"
                     /\ o.st.users = users
                     /\ o.st = St

\* two users are stored, the second registered through the handler, and a
\* registration of the first one's name with another password is rejected
C4_Witness ==
    /\ Len(users) = 2
    /\ \A d \in Clients : Idle(d)
    /\ \E o \in register_check(St, "c1", "POST", [username |-> "alice", password |-> "pw2"]) :
         o.kind = "UsernameTaken" /\ o.st.users[1].password = generate_password_hash("pw1", "s1")

\* C5: when a registration commits after another one took its username, the
\* handler reports username taken, not a server error, and the store holds
\* exactly one user of that name.
C5_RaceReportedAsTaken ==
    \A c \in Clients, password \in Passwords :
        (~Idle(c) /\ \E i \in 1..Len(users) : users[i].username = pending[c])
        => \A o \in register_commit(St, c, password) :
             /\ o.kind = "UsernameTaken"
             /\ o.status < 500
             /\ Cardinality({i \in 1..Len(o.st.users) :
                                o.st.users[i].username = pending[c]}) = 1

\* what GET /api/blog/{id} must answer in state s, given the content last
\* written to each post: 404 exactly for an id that is not stored, and else the
\* post's id, author_id, created_at and that content
AnswersPost(o, s, id) ==
    /\ o.status = 404 <=> id \notin DOMAIN s.posts
    /\ id \in DOMAIN s.posts =>
         /\ o.status = 200
         /\ o.out = <<[id |-> id, author_id |-> s.posts[id].author_id,
                       content |-> s.written[id], created_at |-> s.posts[id].created_at]>>
    /\ o.st = s

Reads(s, id) ==
    \A c \in Clients :
        /\ get_blog_post(s, c, id) # {}
        /\ \A o \in get_blog_post(s, c, id) : AnswersPost(o, s, id)

\* C6: GET /api/blog/{id} answers any caller, logged in or not and whatever
\* the post's visible_to, with 404 exactly when no post of that id is stored,
\* and else with the post's id, author_id, created_at and the content last
\* written by its creation or by a successful PATCH; this holds in every
\* state, and right after a creation, a PATCH and a DELETE.
C6_ReadById ==
    /\ \A id \in PostIds : Reads(St, id)
    /\ \A c \in Clients :
         Idle(c) =>
           /\ \A body \in JsonBodies : \A o \in create_blog_post(St, c, body) :
                o.kind = "Created" =>
                  \A g \in get_blog_post(o.st, c, o.id) :
                    g.status = 200 /\ g.out[1].content = body.content
           /\ \A id \in PostIds : \A o \in delete_blog_post(St, c, id) :
                o.status = 200 => \A g \in get_blog_post(o.st, c, id) : g.status = 404
           /\ \A id \in PostIds, body \in JsonBodies :
                \A o \in update_blog_post(St, c, id, body) :
                  (o.status = 200 /\ body.shape = "object" /\ body.has) =>
                      \A g \in get_blog_post(o.st, c, id) :
                        g.status = 200 /\ g.out[1].content = body.content

\* an anonymous client reads a stored post that no visibility list names and
\* whose content a PATCH replaced, while another id, deleted, answers 404
C6_Witness ==
    \E c \in Clients, id \in PostIds :
        /\ Idle(c) /\ Caller(c) = Anonymous
        /\ id \in DOMAIN posts /\ posts[id].visible_to = <<>>
        /\ id = 2 /\ written[id] = "hello" /\ 1 \notin DOMAIN posts
        /\ \E g \in get_blog_post(St, c, id) : g.status = 200 /\ g.out[1].content = "hello"
        /\ \E g \in get_blog_post(St, c, 1) : g.status = 404

\* C7: every handler that takes a body answers a body that is missing, null,
\* not an object or without a required field with a client error, never with
\* a server error, and leaves the store as it was.
C7_MalformedIsClientError ==
    \A c \in Clients :
        Idle(c) =>
            /\ \A form \in Forms :
                 MalformedForm(form) =>
                     \A o \in register_check(St, c, "POST", form) \cup login(St, c, "POST", form) :
                         o.status \in 400..499 /\ o.st = St
            /\ \A o \in create_post_form(St, c, Missing) : o.status < 500 /\ o.st = St
            /\ \A body \in JsonBodies :
                 MalformedJson(body) =>
                     /\ \A o \in create_blog_post(St, c, body) : o.status < 500 /\ o.st = St
                     /\ \A id \in PostIds : \A o \in update_blog_post(St, c, id, body) :
                          o.status < 500 /\ o.st = St

GatedOutcomes(s, c) ==
    UNION ( {logout(s, c), get_all_blog_posts(s, c)}
            \cup {create_blog_post(s, c, body) : body \in JsonBodies}
            \cup {create_post_form(s, c, content) : content \in PostForms}
            \cup {delete_blog_post(s, c, id) : id \in PostIds}
            \cup {update_blog_post(s, c, id, body) : id \in PostIds, body \in JsonBodies} )

\* C8: a request with no authenticated session to a login-required operation
\* is answered as authentication required and changes nothing: users, posts
\* and sessions stay as they were and the caller stays anonymous.
C8_AnonymousRejected ==
    \A c \in Clients :
        (Idle(c) /\ Caller(c) = Anonymous) =>
            /\ logout(St, c) # {}
            /\ \A o \in GatedOutcomes(St, c) :
                 /\ o.kind = "AuthenticationRequired"
                 /\ o.status = 302
                 /\ o.st = St

\* an anonymous client, next to a logged-in one, faces a store with posts
C8_Witness ==
    \E c, d \in Clients :
        /\ Idle(c) /\ Caller(c) = Anonymous
        /\ Caller(d) # Anonymous
        /\ DOMAIN posts # {}
        /\ \E o \in delete_blog_post(St, c, 1) : o.kind = "AuthenticationRequired"

\* the session of every client is anonymous or names a stored user
SessionsResolve == \A c \in Clients : session[c] = Anonymous \/ session[c] \in 1..Len(users)

\* a step that changes the session of c is a logout of c, or a login of c
\* whose username names the stored user u it leaves and whose password
\* verifies against the stored hash of u
SessionStep(c) ==
    session'[c] # session[c] =>
        \/ /\ session'[c] = Anonymous
           /\ \E o \in logout(St, c) : o.kind = "LoggedOut" /\ o.st = St'
        \/ \E form \in Forms :
             LET u == session'[c]
             IN /\ ~MalformedForm(form)
                /\ u \in 1..Len(users)
                /\ users[u].username = form.username
                /\ generate_password_hash(form.password, users[u].password.salt)
                     = users[u].password
                /\ \E o \in login(St, c, "POST", form) : o.kind = "LoggedIn" /\ o.st = St'

\* a login with an unknown username or a password that does not verify
\* leaves every session as it was
FailedLoginKeepsSession ==
    \A c \in Clients, form \in Forms :
        (/\ Idle(c)
         /\ ~MalformedForm(form)
         /\ \A u \in 1..Len(users) :
              \/ users[u].username # form.username
              \/ generate_password_hash(form.password, users[u].password.salt)
                   # users[u].password)
        => \A o \in login(St, c, "POST", form) : o.kind = "LoginFailed" /\ o.st = St

C10_FreshListIsEmpty ==
    /\ \A id \in DOMAIN posts : posts[id].visible_to = <<>>
    /\ \A u \in 1..Len(users) : ~users[u].is_admin
    /\ \A c \in Clients :
         /\ LoggedIn(c) =>
              /\ get_all_blog_posts(St, c) # {}
              /\ \A o \in get_all_blog_posts(St, c) : o.status = 200 /\ o.out = <<>>
         /\ Idle(c) =>
              /\ \A o \in index(St, c) :
                   Len(o.out) = Cardinality(DOMAIN posts) /\ Ids(o.out) = DOMAIN posts
              /\ \A id \in DOMAIN posts : \A o \in get_blog_post(St, c, id) : o.status = 200

\* the author of two stored posts is logged in and is listed nothing
C10_Witness ==
    \E c \in Clients :
        /\ LoggedIn(c)
        /\ Cardinality({id \in DOMAIN posts : posts[id].author_id = Caller(c)}) = 2
        /\ \E o \in get_all_blog_posts(St, c) : o.out = <<>>
        /\ \E o \in index(St, c) : Len(o.out) = 2

====
